---- MODULE Spec2Model ----
(***************************************************************************)
(* The chat session manager of ClassEase (src/components/ChatInterface.tsx) *)
(* over the chat wrapper of the Gemini service (createChatSession), with    *)
(* the pending-query hand-off written by ReportView.handleAskTutor.         *)
(*                                                                         *)
(* React state is modelled by one variable per useState cell.  An event    *)
(* handler runs to completion, React re-renders, and the passive effects   *)
(* whose dependencies changed run before the next event is handled: one    *)
(* action is the handler followed by those effects.  The part of an async  *)
(* handler after its await runs in the action Settle.                      *)
(*                                                                         *)
(* Texts are sequences of tokens; " " is the whitespace character.  Array  *)
(* indices are the code's (0-based); TLA+ sequences are 1-based.           *)
(*                                                                         *)
(* The glossary tooltips of the report (renderMarkdownWithTooltips of      *)
(* textUtils) are a pure function: SpecTooltips draws its arguments and    *)
(* applies it once; SpecPhrases does so for longer texts of one text node  *)
(* and glossaries of phrases.                                              *)
(*                                                                         *)
(* App (src/App.tsx) and one AudioButton (src/components/AudioButton.tsx)  *)
(* are modelled each by one record variable, app and audio; SpecApp and    *)
(* SpecAudio follow them on their own.                                     *)
(***************************************************************************)
EXTENDS Integers, Sequences, FiniteSets, TLC

\* ---------------------------------------------------------------- bounds
MaxTurns    == 4     \* turns in the transcript, counting those still owed
MaxInflight == 2     \* external requests in flight (or owed by the slot)
MaxReports  == 2     \* reports the view is given, one after the other
MaxText     == 4     \* characters of a rendered document, leaf breaks included
MaxTerms    == 2     \* entries of a glossary

\* what the user types into the input box: nothing, whitespace only, a padded
\* text, a plain text; and what the user rewrites a turn to in the edit box
Texts == {<<>>, <<" ">>, <<" ", "a", " ">>, <<"b">>}
EditTexts == {<<" ">>, <<"b", " ">>}
Selections == {<<"x", "y", "z">>}   \* ReportView keeps selections of 3+ chars
Reports == 1..MaxReports

\* option values: null is None, a value v is Some(v)
None == <<>>
Some(v) == <<v>>
Val(o) == o[1]

\* ------------------------------------------------------------ pure helpers
IsSpace(c) == c = " "

RECURSIVE TrimStart(_)
TrimStart(t) ==
    IF t = <<>> THEN <<>>
    ELSE IF IsSpace(Head(t)) THEN TrimStart(Tail(t))
    ELSE t

RECURSIVE TrimEnd(_)
TrimEnd(t) ==
    IF t = <<>> THEN <<>>
    ELSE IF IsSpace(t[Len(t)]) THEN TrimEnd(SubSeq(t, 1, Len(t) - 1))
    ELSE t

\* String.prototype.trim
Trim(t) == TrimEnd(TrimStart(t))

\* Array.prototype.slice(0, n)
Slice0(seq, n) == SubSeq(seq, 1, IF n > Len(seq) THEN Len(seq) ELSE n)

Msg(role, content) == [role |-> role, content |-> content]

\* history.map(m => ({ role: m.role, parts: [{ text: m.content }] }))
ToContent(m) == [role |-> m.role, parts |-> <<[text |-> m.content]>>]
ToGeminiHistory(history) == [i \in 1..Len(history) |-> ToContent(history[i])]

\* the fixed messages of the code
UIFallback == <<"Sorry, I had trouble connecting. Please try again.">>
ChatErrorFallback == <<"Sorry, I encountered an error while processing your request.">>
ChatEmptyFallback == <<"I'm sorry, I couldn't generate a response.">>

\* what the external model can do with one request: answer with a text
\* (possibly the empty one) or fail
ReplyTexts == {<<"r">>, <<>>}
Outcomes == [ok : {TRUE}, text : ReplyTexts] \cup {[ok |-> FALSE, text |-> <<>>]}


\* ------------------------------------------------------------------ state
VARIABLES
    report,        \* the report prop of ChatInterface
    chatSession,   \* useState<ChatSession | null>: 0 is null, else a session id
    sessions,      \* the ChatSession object the component holds: id -> [report, history]
    messages,      \* useState<Message[]>
    inputValue,    \* useState('') of the input box
    isLoading,     \* useState(false)
    editingIndex,  \* useState<number | null>: None or Some(index)
    editValue,     \* useState('') of the edit box
    pendingQuery,  \* localStorage 'classease_pending_query': None or Some(text)
    inflight,      \* the external requests not yet resolved
    uncaught,      \* an error has left a handler (an unhandled rejection)
    expected,      \* history variable: the transcript the sends accepted so far
                   \* call for, None once another operation has taken effect
    last,          \* history variable: the last operation that issued a request
    staging,       \* history variable: deliveries of the last staged query,
                   \* and whether it had to wait in the slot
    tooltips,      \* one call of renderMarkdownWithTooltips: its arguments, and
                   \* its result once it has returned
    app,           \* App: its useState cells and the generations in flight
    audio          \* one AudioButton: its useState cells, its refs, the source
                   \* nodes it has created and the position of its handler

vars == <<report, chatSession, sessions, messages, inputValue, isLoading,
          editingIndex, editValue, pendingQuery, inflight, uncaught,
          expected, last, staging, tooltips, app, audio>>

SessionIds == 1..(MaxInflight + 2)

\* the program state as one value, so that a handler is a function on it
Cur == [report |-> report, chatSession |-> chatSession, sessions |-> sessions,
        messages |-> messages, inputValue |-> inputValue, isLoading |-> isLoading,
        editingIndex |-> editingIndex, editValue |-> editValue,
        pendingQuery |-> pendingQuery, inflight |-> inflight, uncaught |-> uncaught]

\* The promise of one sendMessage call: the session it was called on, the
\* handler that awaits it and the message.  n tells apart promises that agree
\* on these: a new one gets the least n no such promise in flight has.
Request(sess, kind, text, n) == [sess |-> sess, kind |-> kind, text |-> text, n |-> n]

NewRequest(s, sess, kind, text) ==
    LET free == {k \in 1..(Cardinality(s.inflight) + 1) :
                    Request(sess, kind, text, k) \notin s.inflight}
    IN Request(sess, kind, text, CHOOSE k \in free : \A j \in free : k <= j)

\* ------------------------------------------------- geminiService (part_000)
\* createChatSession(report, history): a new Chat object holding the history
\* A session object is identified by an id; a new object gets an id that no
\* object still referenced (by the component or by a request) has.
InUse(s) == DOMAIN s.sessions \cup {r.sess : r \in s.inflight}
FreshId(s) == CHOOSE i \in SessionIds \ InUse(s) :
                 \A j \in SessionIds \ InUse(s) : i <= j

createChatSession(s, id, history) ==
    [s EXCEPT !.sessions = [i \in DOMAIN s.sessions \cup {id} |->
        IF i = id THEN [report |-> s.report, history |-> history]
        ELSE s.sessions[i]]]

\* chat.sendMessage({ message }) resolving: the Chat object records the user
\* content and the model content when the request succeeds, nothing when it fails
chatRecord(chat, message, outcome) ==
    IF outcome.ok
    THEN [chat EXCEPT !.history = @ \o
            <<ToContent(Msg("user", message)), ToContent(Msg("model", outcome.text))>>]
    ELSE chat

\* Variant of sendMessageResult whose catch block returns the empty string.
sendMessageResultEmpty(outcome) ==
    IF outcome.ok
    THEN [ok |-> TRUE,
          val |-> IF outcome.text = <<>> THEN ChatEmptyFallback ELSE outcome.text]
    ELSE [ok |-> TRUE, val |-> <<>>]

\* Variant of sendMessageResult whose catch block rethrows the error.
sendMessageResultRethrow(outcome) ==
    IF outcome.ok
    THEN [ok |-> TRUE,
          val |-> IF outcome.text = <<>> THEN ChatEmptyFallback ELSE outcome.text]
    ELSE [ok |-> FALSE, val |-> <<>>]

\* ChatSession.sendMessage: what the returned promise settles with.
\* [ok |-> TRUE, val |-> text] is a resolved promise, ok = FALSE a rejected one.
sendMessageResult(outcome) ==
    IF outcome.ok
    THEN [ok |-> TRUE,
          val |-> IF outcome.text = <<>> THEN ChatEmptyFallback ELSE outcome.text]
    ELSE [ok |-> TRUE, val |-> ChatErrorFallback]


\* -------------------------------------------------- ChatInterface handlers
\* Each handler maps the state of the render it was called in to the state
\* after its synchronous part.

\* Variant of processMessage without the isLoading test of its guard.
processMessageNoLoadingTest(s, text) ==
    IF Trim(text) = <<>> \/ s.chatSession = 0 THEN s
    ELSE LET userMsg == Trim(text) IN
         [s EXCEPT !.inputValue = <<>>,
                   !.messages = Append(@, Msg("user", userMsg)),
                   !.isLoading = TRUE,
                   !.inflight = @ \cup {NewRequest(s, s.chatSession, "send", userMsg)}]

\* Variant of processMessage whose guard tests the text without trimming it.
processMessageNoTrimTest(s, text) ==
    IF text = <<>> \/ s.chatSession = 0 \/ s.isLoading THEN s
    ELSE LET userMsg == Trim(text) IN
         [s EXCEPT !.inputValue = <<>>,
                   !.messages = Append(@, Msg("user", userMsg)),
                   !.isLoading = TRUE,
                   !.inflight = @ \cup {NewRequest(s, s.chatSession, "send", userMsg)}]

\* processMessage, up to its await
processMessage(s, text) ==
    IF Trim(text) = <<>> \/ s.chatSession = 0 \/ s.isLoading THEN s
    ELSE LET userMsg == Trim(text) IN
         [s EXCEPT !.inputValue = <<>>,
                   !.messages = Append(@, Msg("user", userMsg)),
                   !.isLoading = TRUE,
                   !.inflight = @ \cup {NewRequest(s, s.chatSession, "send", userMsg)}]

\* Variant of initChat without the setMessages call.
initChatKeepsMessages(s, history) ==
    LET id == FreshId(s)
        s1 == createChatSession(s, id, ToGeminiHistory(history))
    IN [s1 EXCEPT !.chatSession = id]

\* initChat(history)
initChat(s, history) ==
    LET id == FreshId(s)
        s1 == createChatSession(s, id, ToGeminiHistory(history))
    IN [s1 EXCEPT !.chatSession = id, !.messages = history]

\* Variant of checkForPendingQuery without the chatSession test of its guard.
checkForPendingQueryNoSessionTest(s) ==
    IF s.pendingQuery # None /\ Val(s.pendingQuery) # <<>> /\ ~s.isLoading
    THEN processMessage([s EXCEPT !.pendingQuery = None], Val(s.pendingQuery))
    ELSE s

\* Variant of checkForPendingQuery without the removeItem call.
checkForPendingQueryKeepsSlot(s) ==
    IF s.pendingQuery # None /\ Val(s.pendingQuery) # <<>>
       /\ s.chatSession # 0 /\ ~s.isLoading
    THEN processMessage(s, Val(s.pendingQuery))
    ELSE s

\* checkForPendingQuery of the listener effect
checkForPendingQuery(s) ==
    IF s.pendingQuery # None /\ Val(s.pendingQuery) # <<>>
       /\ s.chatSession # 0 /\ ~s.isLoading
    THEN processMessage([s EXCEPT !.pendingQuery = None], Val(s.pendingQuery))
    ELSE s

\* handleClearChat; confirmed is the answer to window.confirm
handleClearChat(s, confirmed) ==
    IF confirmed THEN initChat(s, <<>>) ELSE s

\* the loop of handleRegenerate: the last index holding a user turn, or -1
RECURSIVE ScanLastUser(_, _)
ScanLastUser(msgs, i) ==
    IF i < 0 THEN 0 - 1
    ELSE IF msgs[i + 1].role = "user" THEN i
    ELSE ScanLastUser(msgs, i - 1)

\* Variant of handleRegenerate without the isLoading test of its guard.
handleRegenerateNoLoadingTest(s) ==
    IF Len(s.messages) = 0 THEN s
    ELSE LET lastUserIndex == ScanLastUser(s.messages, Len(s.messages) - 1) IN
         IF lastUserIndex < 0 THEN s
         ELSE LET lastUserMsg == s.messages[lastUserIndex + 1].content
                  historyToKeep == Slice0(s.messages, lastUserIndex)
                  id == FreshId(s)
                  s1 == createChatSession(s, id, ToGeminiHistory(historyToKeep))
              IN [s1 EXCEPT !.messages = Append(historyToKeep, Msg("user", lastUserMsg)),
                            !.isLoading = TRUE,
                            !.chatSession = id,
                            !.inflight = @ \cup {NewRequest(s, id, "regen", lastUserMsg)}]

\* Variant of handleRegenerate that slices up to and including the user turn.
handleRegenerateKeepsTurn(s) ==
    IF Len(s.messages) = 0 \/ s.isLoading THEN s
    ELSE LET lastUserIndex == ScanLastUser(s.messages, Len(s.messages) - 1) IN
         IF lastUserIndex < 0 THEN s
         ELSE LET lastUserMsg == s.messages[lastUserIndex + 1].content
                  historyToKeep == Slice0(s.messages, lastUserIndex + 1)
                  id == FreshId(s)
                  s1 == createChatSession(s, id, ToGeminiHistory(historyToKeep))
              IN [s1 EXCEPT !.messages = Append(historyToKeep, Msg("user", lastUserMsg)),
                            !.isLoading = TRUE,
                            !.chatSession = id,
                            !.inflight = @ \cup {NewRequest(s, id, "regen", lastUserMsg)}]

\* handleRegenerate, up to its await
handleRegenerate(s) ==
    IF Len(s.messages) = 0 \/ s.isLoading THEN s
    ELSE LET lastUserIndex == ScanLastUser(s.messages, Len(s.messages) - 1) IN
         IF lastUserIndex < 0 THEN s
         ELSE LET lastUserMsg == s.messages[lastUserIndex + 1].content
                  historyToKeep == Slice0(s.messages, lastUserIndex)
                  id == FreshId(s)
                  s1 == createChatSession(s, id, ToGeminiHistory(historyToKeep))
              IN [s1 EXCEPT !.messages = Append(historyToKeep, Msg("user", lastUserMsg)),
                            !.isLoading = TRUE,
                            !.chatSession = id,
                            !.inflight = @ \cup {NewRequest(s, id, "regen", lastUserMsg)}]

\* handleRegenerate when createChatSession throws (getClient finds no API key):
\* the setMessages and setIsLoading calls before it have been made, the call is
\* outside the try block, so the async handler rejects and nothing follows
handleRegenerateThrown(s) ==
    IF Len(s.messages) = 0 \/ s.isLoading THEN s
    ELSE LET lastUserIndex == ScanLastUser(s.messages, Len(s.messages) - 1) IN
         IF lastUserIndex < 0 THEN s
         ELSE LET lastUserMsg == s.messages[lastUserIndex + 1].content
                  historyToKeep == Slice0(s.messages, lastUserIndex)
              IN [s EXCEPT !.messages = Append(historyToKeep, Msg("user", lastUserMsg)),
                           !.isLoading = TRUE,
                           !.uncaught = TRUE]

\* startEdit(index, content)
startEdit(s, index, content) ==
    [s EXCEPT !.editingIndex = Some(index), !.editValue = content]

\* cancelEdit
cancelEdit(s) ==
    [s EXCEPT !.editingIndex = None, !.editValue = <<>>]

\* Variant of submitEdit without the test of the trimmed text.
submitEditNoBlankTest(s) ==
    IF s.editingIndex = None THEN s
    ELSE LET newContent == Trim(s.editValue)
             historyToKeep == Slice0(s.messages, Val(s.editingIndex))
             id == FreshId(s)
             s1 == createChatSession(s, id, ToGeminiHistory(historyToKeep))
         IN [s1 EXCEPT !.editingIndex = None,
                       !.editValue = <<>>,
                       !.messages = Append(historyToKeep, Msg("user", newContent)),
                       !.isLoading = TRUE,
                       !.chatSession = id,
                       !.inflight = @ \cup {NewRequest(s, id, "edit", newContent)}]

\* Variant of submitEdit that slices up to and including the edited turn.
submitEditKeepsTurn(s) ==
    IF s.editingIndex = None THEN s
    ELSE LET newContent == Trim(s.editValue) IN
         IF newContent = <<>> THEN cancelEdit(s)
         ELSE LET historyToKeep == Slice0(s.messages, Val(s.editingIndex) + 1)
                  id == FreshId(s)
                  s1 == createChatSession(s, id, ToGeminiHistory(historyToKeep))
              IN [s1 EXCEPT !.editingIndex = None,
                            !.editValue = <<>>,
                            !.messages = Append(historyToKeep, Msg("user", newContent)),
                            !.isLoading = TRUE,
                            !.chatSession = id,
                            !.inflight = @ \cup {NewRequest(s, id, "edit", newContent)}]

\* submitEdit, up to its await
submitEdit(s) ==
    IF s.editingIndex = None THEN s
    ELSE LET newContent == Trim(s.editValue) IN
         IF newContent = <<>> THEN cancelEdit(s)
         ELSE LET historyToKeep == Slice0(s.messages, Val(s.editingIndex))
                  id == FreshId(s)
                  s1 == createChatSession(s, id, ToGeminiHistory(historyToKeep))
              IN [s1 EXCEPT !.editingIndex = None,
                            !.editValue = <<>>,
                            !.messages = Append(historyToKeep, Msg("user", newContent)),
                            !.isLoading = TRUE,
                            !.chatSession = id,
                            !.inflight = @ \cup {NewRequest(s, id, "edit", newContent)}]

\* submitEdit when createChatSession throws: as in handleRegenerate, the state
\* updates before the call have been made and the handler rejects
submitEditThrown(s) ==
    IF s.editingIndex = None THEN s
    ELSE LET newContent == Trim(s.editValue) IN
         IF newContent = <<>> THEN cancelEdit(s)
         ELSE LET historyToKeep == Slice0(s.messages, Val(s.editingIndex))
              IN [s EXCEPT !.editingIndex = None,
                           !.editValue = <<>>,
                           !.messages = Append(historyToKeep, Msg("user", newContent)),
                           !.isLoading = TRUE,
                           !.uncaught = TRUE]

\* Variant of afterAwait that appends to the messages of the render the handler
\* was called in (before its user turn) instead of to the current ones.
afterAwaitStaleClosure(s, req, res) ==
    LET base == SubSeq(s.messages, 1, Len(s.messages) - 1)
        appended ==
            IF res.ok THEN Append(base, Msg("model", res.val))
            ELSE IF req.kind = "send" THEN Append(base, Msg("model", UIFallback))
            ELSE base
    IN [s EXCEPT !.messages = appended, !.isLoading = FALSE]

\* the continuation of processMessage / handleRegenerate / submitEdit after the
\* await, for the request req settling with res: the try block, the catch
\* block (which logs and, in processMessage, appends; none rethrows) and the
\* finally block
afterAwait(s, req, res) ==
    LET appended ==
            IF res.ok THEN Append(s.messages, Msg("model", res.val))
            ELSE IF req.kind = "send" THEN Append(s.messages, Msg("model", UIFallback))
            ELSE s.messages
    IN [s EXCEPT !.messages = appended, !.isLoading = FALSE]

\* the request req resolves with outcome: the Chat object records the exchange,
\* the wrapper settles its promise and the handler's continuation runs
settle(s, req, outcome) ==
    LET s1 == [s EXCEPT !.sessions = [i \in DOMAIN @ |->
                            IF i = req.sess THEN chatRecord(@[i], req.text, outcome)
                            ELSE @[i]],
                        !.inflight = @ \ {req}]
    IN afterAwait(s1, req, sendMessageResult(outcome))

\* ReportView.handleAskTutor: stage the query, then dispatch the trigger event,
\* whose listener is checkForPendingQuery
QueryFor(selectedText) == <<"Teach me \"">> \o selectedText \o <<"\"">>

handleAskTutor(s, selectedText) ==
    IF selectedText = <<>> THEN s
    ELSE checkForPendingQuery([s EXCEPT !.pendingQuery = Some(QueryFor(selectedText))])

\* Variant of runEffects whose dependency list is [chatSession] alone.
runEffectsSessionOnly(prev, s) ==
    IF s.chatSession # prev.chatSession
    THEN checkForPendingQuery(s)
    ELSE s

\* the listener effect, deps [chatSession, isLoading]: it runs after a render
\* in which one of them changed, and again if its own send changes them
runEffects(prev, s) ==
    IF s.chatSession # prev.chatSession \/ s.isLoading # prev.isLoading
    THEN checkForPendingQuery(s)
    ELSE s

\* The history of a superseded session object is read by nothing any more
\* (only the promise of its request still refers to it): it is not kept.
collect(s) ==
    LET live == {s.chatSession} IN
    [s EXCEPT !.sessions = [i \in DOMAIN s.sessions \cap live |-> s.sessions[i]]]


\* ------------------------------------------------------ history variables
\* They observe the program through the event ev that took place and the
\* program state before (prev) and after (s) it; no handler reads them.
\* the requests issued by the event: those in flight after it that were not
\* in flight before it, the settled one aside
Issued(prev, s, ev) ==
    s.inflight \ (prev.inflight \ (IF ev.type = "settle" THEN {ev.req} ELSE {}))

IsQuery(text) == text # <<>> /\ text[1] = "Teach me \""

\* the text handed to the send that the event ev led to
RawText(prev, ev) ==
    IF ev.type = "handleSendMessage" THEN ev.text
    ELSE IF ev.type = "handleAskTutor" THEN QueryFor(ev.text)
    ELSE IF prev.pendingQuery # None THEN Val(prev.pendingQuery)
    ELSE <<>>

NoOutcome == [ok |-> FALSE, text |-> <<>>]
NoRequest == Request(0, "none", <<>>, 0)
NoLast == [op |-> "none", phase |-> "void", H |-> <<>>, index |-> None,
           text |-> <<>>, req |-> NoRequest, outcome |-> NoOutcome]

Observable(s) == <<s.report, s.chatSession, s.sessions, s.messages, s.isLoading,
                   s.pendingQuery, s.inflight>>

NextLast(prev, s, ev) ==
    LET new == Issued(prev, s, ev) IN
    IF new # {} /\ ev.type = "settle" THEN NoLast
    ELSE IF new # {}
    THEN LET r == CHOOSE x \in new : TRUE IN
         [op |-> r.kind, phase |-> "issued", H |-> prev.messages,
          index |-> IF r.kind = "edit" THEN prev.editingIndex ELSE None,
          text |-> IF r.kind = "edit" THEN ev.text
                   ELSE IF r.kind = "send" THEN RawText(prev, ev) ELSE <<>>,
          req |-> r, outcome |-> NoOutcome]
    ELSE IF ev.type = "settle" /\ last.phase = "issued" /\ ev.req = last.req
    THEN [last EXCEPT !.phase = "done", !.outcome = ev.outcome]
    ELSE IF Observable(s) # Observable(prev) THEN NoLast
    ELSE last

NextExpected(prev, s, ev) ==
    LET new == Issued(prev, s, ev)
        sent == IF new # {} /\ (\A r \in new : r.kind = "send")
                THEN <<Msg("user", Trim(RawText(prev, ev)))>> ELSE <<>>
    IN IF ev.type = "settle"
       THEN IF expected # None /\ ev.req.kind = "send"
            THEN Some(Val(expected)
                      \o <<Msg("model", sendMessageResult(ev.outcome).val)>> \o sent)
            ELSE None
       ELSE IF ev.type \in {"mount", "report", "clear"} /\ s.chatSession # prev.chatSession
       THEN IF s.inflight \ new = {} THEN Some(sent) ELSE None
       ELSE IF new # {}
       THEN IF expected # None /\ sent # <<>> THEN Some(Val(expected) \o sent) ELSE None
       ELSE IF s.messages # prev.messages \/ s.chatSession # prev.chatSession
       THEN None
       ELSE expected

NextStaging(prev, s, ev) ==
    LET now == Cardinality({r \in Issued(prev, s, ev) : r.kind = "send" /\ IsQuery(r.text)}) IN
    IF ev.type = "handleAskTutor" /\ ev.text # <<>>
    THEN [staged |-> TRUE, delivered |-> now, held |-> s.pendingQuery # None,
          report |-> s.report]
    ELSE [staging EXCEPT !.delivered = @ + now]

\* ------------------------------------------- textUtils (part_002)
\* renderMarkdownWithTooltips(markdown, keyTerms).  The markdown renderer
\* (marked) is a collaborator: what the function is given to work on is the
\* document it produced, here the sequence of its text nodes in document
\* order.  A document is written as one text in which "|" stands for the
\* markup between two text nodes.
WordChars == {"a", "A"}            \* characters that \w matches
OtherChars == {"+"}                \* a character \w does not match, special in a regex
LeafBreak == "|"
DocChars == WordChars \cup OtherChars \cup {LeafBreak}

TextsUpTo(chars, n) == UNION {[1..k -> chars] : k \in 0..n}

\* the text nodes of a document: the non-empty stretches between the breaks
RECURSIVE TextNodesOf(_)
TextNodesOf(d) ==
    IF d = <<>> THEN <<>>
    ELSE IF Head(d) = LeafBreak THEN TextNodesOf(Tail(d))
    ELSE LET stop == IF \E k \in 1..Len(d) : d[k] = LeafBreak
                     THEN CHOOSE k \in 1..Len(d) :
                            d[k] = LeafBreak /\ \A j \in 1..(k - 1) : d[j] # LeafBreak
                     ELSE Len(d) + 1
         IN <<SubSeq(d, 1, stop - 1)>> \o TextNodesOf(SubSeq(d, stop, Len(d)))

Documents == {TextNodesOf(d) : d \in TextsUpTo(DocChars, MaxText)}

\* the terms a glossary may hold: empty, a word in either case, a longer word
\* that contains it, a term that ends with a special character
TermTexts == {<<>>, <<"a">>, <<"A">>, <<"a", "a">>, <<"a", "+">>}

\* longer texts of one text node: the words "a", "aa", ... with "+" between
\* them, and the phrases a glossary may hold: a word, two words, a longer
\* phrase that begins with the last word of the two
MaxPhrase == 6
Phrases == TextsUpTo({"a", "+"}, MaxPhrase) \ {<<>>}
PhraseTexts == {<<"a">>, <<"a", "a">>, <<"a", "+", "a">>, <<"a", "+", "a", "a">>}

\* a KeyTerm; the definition of the entry at position i is the word "a"
\* written i times, a text in which terms of the glossary occur
KeyTerm(term, i) == [term |-> term, definition |-> [k \in 1..i |-> "a"]]

Glossaries ==
    UNION {{[i \in 1..n |-> KeyTerm(f[i], i)] : f \in [1..n -> TermTexts]} : n \in 0..MaxTerms}

PhraseGlossaries ==
    UNION {{[i \in 1..n |-> KeyTerm(f[i], i)] : f \in [1..n -> PhraseTexts]} : n \in 1..MaxTerms}

\* String.prototype.toLowerCase
LowerChar(c) == IF c = "A" THEN "a" ELSE c
toLowerCase(t) == [k \in 1..Len(t) |-> LowerChar(t[k])]

\* [...keyTerms].sort((a, b) => b.term.length - a.term.length): a stable sort,
\* longest term first
RECURSIVE InsertByLength(_, _)
InsertByLength(sorted, e) ==
    IF sorted = <<>> THEN <<e>>
    ELSE IF Len(Head(sorted).term) < Len(e.term) THEN <<e>> \o sorted
    ELSE <<Head(sorted)>> \o InsertByLength(Tail(sorted), e)

RECURSIVE SortTerms(_)
SortTerms(keyTerms) ==
    IF keyTerms = <<>> THEN <<>>
    ELSE InsertByLength(SortTerms(SubSeq(keyTerms, 1, Len(keyTerms) - 1)),
                        keyTerms[Len(keyTerms)])

\* \b at position i of text (between text[i] and text[i+1], 0 <= i <= length)
WordBoundary(text, i) ==
    LET before == i >= 1 /\ text[i] \in WordChars
        after  == i < Len(text) /\ text[i + 1] \in WordChars
    IN before # after

\* t.term.replace(/[.*+?^${}()|[\]\\]/g, '\\$&') (line 33): a backslash is put
\* before every character of the class; "+" is the one the alphabet has
SpecialChars == {"+"}
Backslash == "\\"

RECURSIVE escape(_)
escape(term) ==
    IF term = <<>> THEN <<>>
    ELSE (IF Head(term) \in SpecialChars THEN <<Backslash, Head(term)>> ELSE <<Head(term)>>)
         \o escape(Tail(term))

\* sortedTerms.map(...).join('|') inside the group of the pattern: one
\* alternative for each term, in the order of sortedTerms; the join of no term
\* is the empty source, which is one empty alternative
Alternatives(sortedTerms) ==
    IF sortedTerms = <<>> THEN << <<>> >>
    ELSE [k \in 1..Len(sortedTerms) |-> escape(sortedTerms[k].term)]

\* new RegExp reads the source of an alternative as atoms: a backslash and the
\* character after it are that character, a "+" after an atom repeats the atom
\* one or more times, any other character is itself.  (A "+" with no atom
\* before it is a SyntaxError; escape leaves no "+" without its backslash.)
RECURSIVE Atoms(_)
Atoms(src) ==
    IF src = <<>> THEN <<>>
    ELSE LET escaped == Head(src) = Backslash /\ Len(src) >= 2
             rest == SubSeq(src, IF escaped THEN 3 ELSE 2, Len(src))
             many == rest # <<>> /\ Head(rest) = "+"
         IN <<[char |-> IF escaped THEN src[2] ELSE src[1], many |-> many]>>
            \o Atoms(IF many THEN Tail(rest) ELSE rest)

\* Variant of Ends that compares the characters as they are (no flag i).
RECURSIVE EndsCaseSensitive(_, _, _)
EndsCaseSensitive(text, i, atoms) ==
    IF atoms = <<>> THEN {i}
    ELSE IF Head(atoms).many
    THEN UNION {EndsCaseSensitive(text, i + k, Tail(atoms)) :
                   k \in {k \in 1..(Len(text) - i) :
                            \A j \in 1..k : text[i + j] = Head(atoms).char}}
    ELSE IF i < Len(text) /\ text[i + 1] = Head(atoms).char
    THEN EndsCaseSensitive(text, i + 1, Tail(atoms))
    ELSE {}

\* the positions where a match of atoms that starts at position i of text can
\* end; the case of a character is ignored (flag i)
RECURSIVE Ends(_, _, _)
Ends(text, i, atoms) ==
    IF atoms = <<>> THEN {i}
    ELSE IF Head(atoms).many
    THEN UNION {Ends(text, i + k, Tail(atoms)) :
                   k \in {k \in 1..(Len(text) - i) :
                            \A j \in 1..k : LowerChar(text[i + j]) = LowerChar(Head(atoms).char)}}
    ELSE IF i < Len(text) /\ LowerChar(text[i + 1]) = LowerChar(Head(atoms).char)
    THEN Ends(text, i + 1, Tail(atoms))
    ELSE {}

\* the length of the match that starts at i and may end at the positions
\* ends (a repeated atom takes as much as it can), -1 when there is none
LengthTo(ends, i) ==
    IF ends = {} THEN 0 - 1
    ELSE (CHOOSE e \in ends : \A f \in ends : f <= e) - i

\* Variant of AlternativeLengthAt without the two \b of the pattern.
AlternativeLengthAtNoBoundary(text, i, alt) ==
    LengthTo(Ends(text, i, Atoms(alt)), i)

\* \b(alt)\b at position i of text: the length of the match, -1 when there
\* is none
AlternativeLengthAt(text, i, alt) ==
    IF ~WordBoundary(text, i) THEN 0 - 1
    ELSE LengthTo({e \in Ends(text, i, Atoms(alt)) : WordBoundary(text, e)}, i)

\* the alternative for term matches at position i: the term as literal text,
\* case ignored, between two word boundaries
TermMatchesAt(text, i, term) == AlternativeLengthAt(text, i, escape(term)) >= 0

\* the alternatives are tried in their order: the length of the first that
\* matches, -1 when none does
FirstLength(lengths) ==
    LET hits == {k \in 1..Len(lengths) : lengths[k] >= 0}
    IN IF hits = {} THEN 0 - 1
       ELSE lengths[CHOOSE k \in hits : \A j \in hits : k <= j]

\* \b(alt1|alt2|...)\b at position i of text: the length of the match
AlternationLengthAt(text, i, alts) ==
    FirstLength([k \in 1..Len(alts) |-> AlternativeLengthAt(text, i, alts[k])])

\* the pattern of line 33 at position i: the alternatives are the escaped
\* terms in the order of sortedTerms
MatchLengthAt(text, i, sortedTerms) ==
    AlternationLengthAt(text, i, Alternatives(sortedTerms))

\* the leftmost position at or after from where the pattern matches, with the
\* text matched there (match.index, match[0]); lengths[i] is the length of the
\* match at position i
LeftmostMatch(text, from, lengths) ==
    LET at == {i \in from..Len(text) : lengths[i] >= 0}
    IN IF at = {} THEN None
       ELSE LET i == CHOOSE i \in at : \A j \in at : i <= j
            IN Some([index |-> i, text |-> SubSeq(text, i + 1, i + lengths[i])])

\* pattern.exec(text) with pattern.lastIndex = from: the leftmost match at or
\* after from, None when there is none
exec(text, from, sortedTerms) ==
    LeftmostMatch(text, from,
                  [i \in from..Len(text) |-> MatchLengthAt(text, i, sortedTerms)])

\* the nodes the function puts in place of a text node
TextRun(text) == [kind |-> "text", text |-> text]

\* Variant of Tooltip that shows the term of the glossary entry.
TooltipCanonical(matchedTerm, termObj) ==
    [kind |-> "tooltip", text |-> termObj.term,
     title |-> termObj.term, desc |-> termObj.definition,
     children |-> <<TextRun(termObj.term), TextRun(termObj.term),
                    TextRun(termObj.definition)>>]

\* Variant of Tooltip in which the title of the popup has been scanned again
\* and its term wrapped.
TooltipRescanned(matchedTerm, termObj) ==
    [kind |-> "tooltip", text |-> matchedTerm,
     title |-> termObj.term, desc |-> termObj.definition,
     children |-> <<TextRun(matchedTerm),
                    [kind |-> "tooltip", text |-> termObj.term],
                    TextRun(termObj.definition)>>]

\* the wrapper span (lines 62-95): its text is the matched text, its popup
\* holds the term and the definition of the entry; children are the text
\* nodes made inside it (lines 64, 82, 86), in document order
Tooltip(matchedTerm, termObj) ==
    [kind |-> "tooltip", text |-> matchedTerm,
     title |-> termObj.term, desc |-> termObj.definition,
     children |-> <<TextRun(matchedTerm), TextRun(termObj.term),
                    TextRun(termObj.definition)>>]

\* Variant of FindTerm that takes the last entry that fits.
FindTermLast(sortedTerms, matchedTerm) ==
    LET hits == {k \in 1..Len(sortedTerms) :
                    toLowerCase(sortedTerms[k].term) = toLowerCase(matchedTerm)}
    IN IF hits = {} THEN None
       ELSE Some(sortedTerms[CHOOSE k \in hits : \A j \in hits : k >= j])

\* sortedTerms.find(t => t.term.toLowerCase() === matchedTerm.toLowerCase())
FindTerm(sortedTerms, matchedTerm) ==
    LET hits == {k \in 1..Len(sortedTerms) :
                    toLowerCase(sortedTerms[k].term) = toLowerCase(matchedTerm)}
    IN IF hits = {} THEN None
       ELSE Some(sortedTerms[CHOOSE k \in hits : \A j \in hits : k <= j])

\* The loop of lines 47-104, from the state (pattern.lastIndex, lastIndex,
\* fragment).  exec leaves pattern.lastIndex at the end of the match; after a
\* match of length 0 the next exec finds the same match again, the loop appends
\* a node each time round and never ends: Hangs.
Hangs == [hangs |-> TRUE, nodes |-> <<>>]

RECURSIVE MatchLoop(_, _, _, _, _)
MatchLoop(text, sortedTerms, patternLastIndex, lastIndex, fragment) ==
    LET match == exec(text, patternLastIndex, sortedTerms) IN
    IF match = None
    THEN [hangs |-> FALSE,
          nodes |-> IF lastIndex < Len(text)
                    THEN Append(fragment, TextRun(SubSeq(text, lastIndex + 1, Len(text))))
                    ELSE fragment]
    ELSE LET matchedTerm == Val(match).text
             startIndex == Val(match).index
             termObj == FindTerm(sortedTerms, matchedTerm)
             f1 == IF startIndex > lastIndex
                   THEN Append(fragment, TextRun(SubSeq(text, lastIndex + 1, startIndex)))
                   ELSE fragment
             f2 == IF termObj # None
                   THEN Append(f1, Tooltip(matchedTerm, Val(termObj)))
                   ELSE Append(f1, TextRun(matchedTerm))
         IN IF Len(matchedTerm) = 0 THEN Hangs
            ELSE MatchLoop(text, sortedTerms, startIndex + Len(matchedTerm),
                           startIndex + Len(matchedTerm), f2)

\* the body of textNodes.forEach (lines 27-113) for one text node: the nodes
\* that stand in its place afterwards
ProcessTextNode(text, sortedTerms) ==
    IF text = <<>> THEN [hangs |-> FALSE, nodes |-> <<TextRun(text)>>]
    ELSE IF exec(text, 0, sortedTerms) = None
    THEN [hangs |-> FALSE, nodes |-> <<TextRun(text)>>]
    ELSE MatchLoop(text, sortedTerms, 0, 0, <<>>)

\* textNodes.forEach (line 27): the text nodes are processed one after the
\* other; for each the nodes in its place, or Hangs
RECURSIVE forEach(_, _)
forEach(textNodes, sortedTerms) ==
    IF textNodes = <<>> THEN [hangs |-> FALSE, nodes |-> <<>>]
    ELSE LET first == ProcessTextNode(Head(textNodes), sortedTerms)
         IN IF first.hangs THEN Hangs
            ELSE LET rest == forEach(Tail(textNodes), sortedTerms)
                 IN IF rest.hangs THEN Hangs
                    ELSE [hangs |-> FALSE, nodes |-> <<first.nodes>> \o rest.nodes]

\* rawHtml (line 6): the document as the renderer produced it
rawHtml(textNodes) == [n \in 1..Len(textNodes) |-> <<TextRun(textNodes[n])>>]

\* Variant of SpreadAndSort that sorts the array it is given.
SortInPlace(keyTerms) ==
    [keyTerms |-> SortTerms(keyTerms), sortedTerms |-> SortTerms(keyTerms)]

\* line 16: [...keyTerms] is a new array with the entries of keyTerms, sort
\* orders that array in place and returns it.  The caller's array and
\* sortedTerms after the line.
SpreadAndSort(keyTerms) ==
    [keyTerms |-> keyTerms, sortedTerms |-> SortTerms(keyTerms)]

\* The lines after line 8: the document is walked and serialised again.
injectTooltips(textNodes, keyTerms) ==
    LET arrays == SpreadAndSort(keyTerms)
        done == forEach(textNodes, arrays.sortedTerms)
    IN IF done.hangs
       THEN [hangs |-> TRUE, value |-> "none", nodes |-> <<>>,
             keyTerms |-> arrays.keyTerms]
       ELSE [hangs |-> FALSE, value |-> "doc.body.innerHTML", nodes |-> done.nodes,
             keyTerms |-> arrays.keyTerms]

\* Variant of renderMarkdownWithTooltips without the test of line 8.
renderMarkdownWithTooltipsNoEmptyTest(textNodes, keyTerms) ==
    injectTooltips(textNodes, keyTerms)

\* renderMarkdownWithTooltips on the document textNodes: which string it
\* returns (value), for each text node of the document the nodes in its place
\* (nodes), and the caller's array after the call (keyTerms); or it hangs
renderMarkdownWithTooltips(textNodes, keyTerms) ==
    IF Len(keyTerms) = 0
    THEN [hangs |-> FALSE, value |-> "rawHtml", nodes |-> rawHtml(textNodes),
          keyTerms |-> keyTerms]
    ELSE injectTooltips(textNodes, keyTerms)

NoCall ==
    [pc |-> "none", textNodes |-> <<>>, keyTerms |-> <<>>, html |-> <<>>, value |-> "none"]

\* --------------------------------------------------------------- actions
Owed(s) == Len(s.messages) + Cardinality(s.inflight)
           + (IF s.pendingQuery # None THEN 2 ELSE 0)

Bounded(s) ==
    /\ Owed(s) <= MaxTurns
    /\ Cardinality(s.inflight) + (IF s.pendingQuery # None THEN 1 ELSE 0) <= MaxInflight

\* the state s becomes the current one, the history variables observing the
\* event ev that led to it
Commit(s, ev) ==
    /\ Bounded(s)
    /\ report' = s.report
    /\ chatSession' = s.chatSession
    /\ sessions' = s.sessions
    /\ messages' = s.messages
    /\ inputValue' = s.inputValue
    /\ isLoading' = s.isLoading
    /\ editingIndex' = s.editingIndex
    /\ editValue' = s.editValue
    /\ pendingQuery' = s.pendingQuery
    /\ inflight' = s.inflight
    /\ uncaught' = s.uncaught
    /\ expected' = NextExpected(Cur, s, ev)
    /\ last' = NextLast(Cur, s, ev)
    /\ staging' = NextStaging(Cur, s, ev)
    /\ UNCHANGED <<tooltips, app, audio>>

\* commit the state t that the handler left: run the effects, drop the
\* unreferenced objects, and assign
Render(t, ev) ==
    \E s \in {collect(runEffects(Cur, t))} : Commit(s, ev)

Event(type) == [type |-> type]

Mounted == chatSession # 0

\* the edit box is rendered for the turn editingIndex refers to
EditBoxShown == editingIndex # None /\ Val(editingIndex) < Len(messages)

\* The effects of the first render: the listener effect finds chatSession
\* still null (the session that initChat creates is bound by the render that
\* follows), and runs again after that render.
Mount ==
    /\ ~Mounted
    /\ Render(initChat(checkForPendingQuery(Cur), <<>>), Event("mount"))

\* App.handleReset takes the report view down: the state of the component is
\* gone and no effect runs, the slot in localStorage stays.  The requests still
\* in flight settle on a component that is no longer mounted, where setState
\* does nothing: they are not followed any further.
unmount(s) ==
    [s EXCEPT !.chatSession = 0, !.sessions = <<>>, !.messages = <<>>,
              !.inputValue = <<>>, !.isLoading = FALSE, !.editingIndex = None,
              !.editValue = <<>>, !.inflight = {}]

Unmount ==
    /\ Mounted
    /\ Commit(unmount(Cur), Event("unmount"))

\* App puts the report view up for the next report it has generated, after
\* handleReset took the view of the report before it down
MountNextReport ==
    /\ ~Mounted
    /\ report + 1 \in Reports
    /\ \E s \in {[Cur EXCEPT !.report = report + 1]} :
          Render(initChat(checkForPendingQuery(s), <<>>), Event("mount"))

\* the same effect when the report prop changes
ReportChanged ==
    /\ Mounted
    /\ report + 1 \in Reports
    /\ Render(initChat([Cur EXCEPT !.report = report + 1], <<>>), Event("report"))

\* onChange of the input box: setInputValue(e.target.value)
changeInput(s, text) == [s EXCEPT !.inputValue = text]

\* onChange of the edit box: setEditValue(e.target.value)
changeEditValue(s, text) == [s EXCEPT !.editValue = text]

\* the user types in the input box without submitting (the box is disabled
\* while loading)
ChangeInput ==
    /\ Mounted /\ ~isLoading
    /\ \E text \in Texts :
          /\ text # inputValue
          /\ Render(changeInput(Cur, text), [type |-> "changeInput", text |-> text])

\* handleSendMessage: processMessage(inputValue)
handleSendMessage(s) == processMessage(s, s.inputValue)

\* The user fills the input box (it is disabled while loading) and submits
\* the form: the onChange and onSubmit handlers, one after the other.
HandleSendMessage ==
    /\ Mounted
    /\ \E text \in (IF isLoading THEN {inputValue} ELSE Texts) :
          Render(handleSendMessage(changeInput(Cur, text)),
                 [type |-> "handleSendMessage", text |-> text])

\* the Clear Chat button
HandleClearChat ==
    /\ Mounted
    /\ \E confirmed \in BOOLEAN :
          Render(handleClearChat(Cur, confirmed), Event("clear"))

\* the Regenerate button
HandleRegenerate ==
    /\ Mounted
    /\ Render(handleRegenerate(Cur), Event("handleRegenerate"))

\* A handler that fails before it rebinds leaves the old session bound, whose
\* recorded history then outgrows the transcript: the failures are followed
\* while that history is no longer than MaxTurns.
HistoryBounded == Mounted /\ Len(sessions[chatSession].history) <= MaxTurns

\* the Regenerate button, the creation of the new session failing
HandleRegenerateThrown ==
    /\ HistoryBounded
    /\ Render(handleRegenerateThrown(Cur), Event("handleRegenerateThrown"))

\* the Edit button of a user turn: the toolbar is rendered when not loading
\* and the turn is not the one being edited
StartEdit ==
    /\ Mounted /\ ~isLoading
    /\ \E index \in 0..(Len(messages) - 1) :
          /\ messages[index + 1].role = "user"
          /\ editingIndex # Some(index)
          /\ Render(startEdit(Cur, index, messages[index + 1].content), Event("startEdit"))

\* the Cancel button of the edit box
CancelEdit ==
    /\ EditBoxShown
    /\ Render(cancelEdit(Cur), Event("cancelEdit"))

\* The user leaves the text of the edit box as it is or rewrites it, and
\* presses Save & Submit: the onChange and onClick handlers, one after the other.
SubmitEdit ==
    /\ EditBoxShown
    /\ \E text \in EditTexts \cup {editValue} :
          Render(submitEdit(changeEditValue(Cur, text)),
                 [type |-> "submitEdit", text |-> text])

\* Save & Submit, the creation of the new session failing
SubmitEditThrown ==
    /\ EditBoxShown /\ HistoryBounded
    /\ \E text \in EditTexts \cup {editValue} :
          Render(submitEditThrown(changeEditValue(Cur, text)),
                 [type |-> "submitEditThrown", text |-> text])

\* the Ask Tutor popup of ReportView
HandleAskTutor ==
    /\ Mounted
    /\ \E sel \in Selections :
          Render(handleAskTutor(Cur, sel), [type |-> "handleAskTutor", text |-> sel])

\* the 'classease-chat-trigger' event reaching the listener once more
HandleTrigger ==
    /\ Mounted
    /\ Render(checkForPendingQuery(Cur), Event("handleTrigger"))

\* an external request resolves or fails
Settle ==
    \E req \in inflight : \E outcome \in Outcomes :
        Render(settle(Cur, req, outcome),
               [type |-> "settle", req |-> req, outcome |-> outcome])

\* ------------------------------------------------------------ App (App.tsx)
MaxForms == 2          \* the form data the user submits are taken from 1..MaxForms
MaxGenerating == 3     \* calls of generateExplainerReport in flight at a time
FormDatas == 1..MaxForms

\* useState(AppStatus.IDLE), useState(null) three times; no call in flight
InitApp == [status |-> "IDLE", inputData |-> None, report |-> None, error |-> None,
            generating |-> {}]

\* The promise of one generateExplainerReport call: the data it was called on;
\* n tells apart the calls in flight on the same data.
Generation(data, n) == [data |-> data, n |-> n]

NewGeneration(a, data) ==
    LET free == {k \in 1..(Cardinality(a.generating) + 1) :
                    Generation(data, k) \notin a.generating}
    IN Generation(data, CHOOSE k \in free : \A j \in free : k <= j)

\* handleFormSubmit(data), up to its await
handleFormSubmit(a, data) ==
    [a EXCEPT !.inputData = Some(data),
              !.status = "GENERATING",
              !.error = None,
              !.generating = @ \cup {NewGeneration(a, data)}]

\* handleFormSubmit after its await: the try block goes on with the result,
\* or the catch block runs
generationSettled(a, g, ok, result) ==
    IF ok
    THEN [a EXCEPT !.report = Some(result), !.status = "COMPLETE",
                   !.generating = @ \ {g}]
    ELSE [a EXCEPT !.error = Some("Unable to generate report."), !.status = "ERROR",
                   !.generating = @ \ {g}]

\* handleReset
handleReset(a) ==
    [a EXCEPT !.status = "IDLE", !.inputData = None, !.report = None, !.error = None]

\* what App renders in <main>
ReportViewRendered == app.status = "COMPLETE" /\ app.report # None /\ app.inputData # None
InputFormRendered == app.status = "IDLE"

\* the form of InputForm is submitted
HandleFormSubmit ==
    /\ InputFormRendered
    /\ Cardinality(app.generating) < MaxGenerating
    /\ \E data \in FormDatas : app' = handleFormSubmit(app, data)
    /\ UNCHANGED <<report, chatSession, sessions, messages, inputValue, isLoading,
                   editingIndex, editValue, pendingQuery, inflight, uncaught,
                   expected, last, staging, tooltips, audio>>

\* the logo of the header, the Try Again button, or onReset of ReportView
HandleReset ==
    /\ app' = handleReset(app)
    /\ UNCHANGED <<report, chatSession, sessions, messages, inputValue, isLoading,
                   editingIndex, editValue, pendingQuery, inflight, uncaught,
                   expected, last, staging, tooltips, audio>>

\* a call of generateExplainerReport resolves with a report or fails
GenerationSettles ==
    /\ \E g \in app.generating : \E ok \in BOOLEAN : \E result \in Reports :
          /\ ~ok => result = 1
          /\ app' = generationSettled(app, g, ok, result)
    /\ UNCHANGED <<report, chatSession, sessions, messages, inputValue, isLoading,
                   editingIndex, editValue, pendingQuery, inflight, uncaught,
                   expected, last, staging, tooltips, audio>>

\* ------------------------------------------- AudioButton (AudioButton.tsx)
MaxSources == 5        \* source nodes one button creates

\* useState(false) twice, useRef(null) for the source node and the buffer; a
\* source node is its index in sources, 0 is null.  A source node is "playing"
\* from start() until it is stopped or its buffer runs out, then "finished"
\* until its ended event is dispatched, then "ended".
InitAudio == [isPlaying |-> FALSE, isLoading |-> FALSE, sourceNodeRef |-> 0,
              audioBufferRef |-> FALSE, sources |-> <<>>, pc |-> "idle"]

\* AudioBufferSourceNode.stop(): the node stops playing; its ended event is
\* dispatched later, by a task of its own
stop(sources, i) ==
    [sources EXCEPT ![i] = IF @ = "playing" THEN "finished" ELSE @]

\* lines 53-64 and the finally block: createBufferSource, onended, start,
\* sourceNodeRef.current = source, setIsPlaying(true), setIsLoading(false)
startSource(b) ==
    [b EXCEPT !.sources = Append(@, "playing"),
              !.sourceNodeRef = Len(b.sources) + 1,
              !.isPlaying = TRUE,
              !.isLoading = FALSE,
              !.pc = "idle"]

\* lines 49-51 and what follows: the handler awaits resume() if the context
\* is suspended, else it goes on to start the source
fromResumeTest(b, suspended) ==
    IF suspended THEN [b EXCEPT !.pc = "resume"] ELSE startSource(b)

\* handleTogglePlay, up to its first await or to its end; suspended is the
\* answer of audioContext.state === 'suspended'
handleTogglePlay(b, suspended) ==
    IF b.isPlaying
    THEN [b EXCEPT !.sources = IF b.sourceNodeRef # 0 THEN stop(@, b.sourceNodeRef) ELSE @,
                   !.sourceNodeRef = 0,
                   !.isPlaying = FALSE]
    ELSE IF ~b.audioBufferRef
    THEN [b EXCEPT !.isLoading = TRUE, !.pc = "generate"]
    ELSE fromResumeTest([b EXCEPT !.isLoading = TRUE], suspended)

\* handleTogglePlay after the await of generateAudioForText
generateSettled(b, ok, suspended) ==
    IF ok THEN fromResumeTest([b EXCEPT !.audioBufferRef = TRUE], suspended)
    ELSE [b EXCEPT !.isLoading = FALSE, !.pc = "idle"]

\* handleTogglePlay after the await of resume()
resumeSettled(b, ok) ==
    IF ok THEN startSource(b)
    ELSE [b EXCEPT !.isLoading = FALSE, !.pc = "idle"]

\* source.onended of the source node i
onended(b, i) ==
    [b EXCEPT !.sources[i] = "ended", !.isPlaying = FALSE, !.sourceNodeRef = 0]

\* the button is clicked (it is disabled while isLoading)
HandleTogglePlay ==
    /\ ~audio.isLoading
    /\ audio.isPlaying \/ Len(audio.sources) < MaxSources
    /\ \E suspended \in BOOLEAN : audio' = handleTogglePlay(audio, suspended)
    /\ UNCHANGED <<report, chatSession, sessions, messages, inputValue, isLoading,
                   editingIndex, editValue, pendingQuery, inflight, uncaught,
                   expected, last, staging, tooltips, app>>

\* generateAudioForText resolves or fails
GenerateSettles ==
    /\ audio.pc = "generate"
    /\ \E ok, suspended \in BOOLEAN : audio' = generateSettled(audio, ok, suspended)
    /\ UNCHANGED <<report, chatSession, sessions, messages, inputValue, isLoading,
                   editingIndex, editValue, pendingQuery, inflight, uncaught,
                   expected, last, staging, tooltips, app>>

\* audioContext.resume() resolves or fails
ResumeSettles ==
    /\ audio.pc = "resume"
    /\ \E ok \in BOOLEAN : audio' = resumeSettled(audio, ok)
    /\ UNCHANGED <<report, chatSession, sessions, messages, inputValue, isLoading,
                   editingIndex, editValue, pendingQuery, inflight, uncaught,
                   expected, last, staging, tooltips, app>>

\* a source node plays its buffer to the end
PlaybackEnds ==
    /\ \E i \in 1..Len(audio.sources) :
          /\ audio.sources[i] = "playing"
          /\ audio' = [audio EXCEPT !.sources = stop(@, i)]
    /\ UNCHANGED <<report, chatSession, sessions, messages, inputValue, isLoading,
                   editingIndex, editValue, pendingQuery, inflight, uncaught,
                   expected, last, staging, tooltips, app>>

\* the ended event of a source node that has finished is dispatched
OnEnded ==
    /\ \E i \in 1..Len(audio.sources) :
          /\ audio.sources[i] = "finished"
          /\ audio' = onended(audio, i)
    /\ UNCHANGED <<report, chatSession, sessions, messages, inputValue, isLoading,
                   editingIndex, editValue, pendingQuery, inflight, uncaught,
                   expected, last, staging, tooltips, app>>

\* the chat of a report view that has just been put up
InitChat ==
    /\ report = 1
    /\ chatSession = 0
    /\ sessions = <<>>
    /\ messages = <<>>
    /\ inputValue = <<>>
    /\ isLoading = FALSE
    /\ editingIndex = None
    /\ editValue = <<>>
    /\ pendingQuery = None
    /\ inflight = {}
    /\ uncaught = FALSE
    /\ expected = None
    /\ last = NoLast
    /\ staging = [staged |-> FALSE, delivered |-> 0, held |-> FALSE, report |-> 0]
    /\ app = InitApp
    /\ audio = InitAudio

Init ==
    /\ InitChat
    /\ tooltips = NoCall

\* One call of renderMarkdownWithTooltips on a document and a glossary.
InitTooltips ==
    /\ InitChat
    /\ \E d \in Documents : \E g \in Glossaries :
          tooltips = [pc |-> "called", textNodes |-> d, keyTerms |-> g, html |-> <<>>,
                      value |-> "none"]

RenderMarkdownWithTooltips ==
    /\ tooltips.pc = "called"
    /\ \E r \in {renderMarkdownWithTooltips(tooltips.textNodes, tooltips.keyTerms)} :
          tooltips' = [tooltips EXCEPT !.pc = IF r.hangs THEN "hangs" ELSE "returned",
                                       !.html = r.nodes,
                                       !.value = r.value,
                                       !.keyTerms = r.keyTerms]
    /\ UNCHANGED <<report, chatSession, sessions, messages, inputValue, isLoading,
                   editingIndex, editValue, pendingQuery, inflight, uncaught,
                   expected, last, staging, app, audio>>

NextTooltips == RenderMarkdownWithTooltips

\* One call on a document of one text node made of words and separators, with
\* a glossary of phrases.
InitPhrases ==
    /\ InitChat
    /\ \E d \in Phrases : \E g \in PhraseGlossaries :
          tooltips = [pc |-> "called", textNodes |-> <<d>>, keyTerms |-> g, html |-> <<>>,
                      value |-> "none"]

SpecPhrases == InitPhrases /\ [][NextTooltips]_vars

SpecTooltips == InitTooltips /\ [][NextTooltips]_vars

\* The chat session with the pending-query hand-off and report changes.
Next ==
    \/ Mount
    \/ HandleSendMessage
    \/ HandleClearChat
    \/ HandleRegenerate
    \/ HandleAskTutor
    \/ HandleTrigger
    \/ ReportChanged
    \/ Settle

Spec == Init /\ [][Next]_vars

\* The chat session with the edit box: sending, regenerating and editing,
\* with no query staged.
NextEdit ==
    \/ Mount
    \/ HandleSendMessage
    \/ HandleRegenerate
    \/ StartEdit
    \/ CancelEdit
    \/ SubmitEdit
    \/ Settle

SpecEdit == Init /\ [][NextEdit]_vars

\* The chat session with the edit box, where the creation of a session for
\* regenerate or edit may fail.  Every request of the external model resolves
\* or fails in the end.
NextCreate ==
    \/ Mount
    \/ HandleSendMessage
    \/ HandleRegenerate
    \/ HandleRegenerateThrown
    \/ StartEdit
    \/ CancelEdit
    \/ SubmitEdit
    \/ SubmitEditThrown
    \/ Settle

SpecCreate == Init /\ [][NextCreate]_vars /\ WF_vars(Settle)

\* The pending-query hand-off across the life of the view: the view is taken
\* down and put up again, queries are staged, messages are sent.  Every
\* request of the external model resolves or fails in the end.
NextHandoff ==
    \/ Mount
    \/ MountNextReport
    \/ Unmount
    \/ HandleSendMessage
    \/ HandleAskTutor
    \/ HandleTrigger
    \/ Settle

SpecHandoff == Init /\ [][NextHandoff]_vars /\ WF_vars(Settle)

\* The chat session with the edit box and the Clear Chat button.
NextClear ==
    \/ Mount
    \/ HandleSendMessage
    \/ HandleClearChat
    \/ StartEdit
    \/ CancelEdit
    \/ SubmitEdit
    \/ Settle

SpecClear == Init /\ [][NextClear]_vars

\* The chat session with a draft in the input box and the pending-query
\* hand-off.
NextDraft ==
    \/ Mount
    \/ ChangeInput
    \/ HandleSendMessage
    \/ HandleAskTutor
    \/ HandleTrigger
    \/ Settle

SpecDraft == Init /\ [][NextDraft]_vars

\* App: the form is submitted, the generation settles, the application is
\* reset.
NextApp ==
    \/ HandleFormSubmit
    \/ HandleReset
    \/ GenerationSettles

SpecApp == Init /\ [][NextApp]_vars

\* One AudioButton: clicks, the awaited calls settling, playbacks running to
\* their end, ended events being dispatched.
NextAudio ==
    \/ HandleTogglePlay
    \/ GenerateSettles
    \/ ResumeSettles
    \/ PlaybackEnds
    \/ OnEnded

SpecAudio == Init /\ [][NextAudio]_vars


\* ---------------------------------------------------------------- claims
Idle == chatSession # 0 /\ ~isLoading

HandleHistory == sessions[chatSession].history

\* C1: at most one external request is in flight, under any interleaving of
\* send, regenerateLast, editAndResubmit, clear and request completions.
C1_AtMostOneInFlight == Cardinality(inflight) <= 1

\* a request sent on a session object that is no longer the bound one settles
StaleSettles == \E r \in inflight : r \notin inflight' /\ r.sess # chatSession

ModelTurnAppended ==
    /\ Len(messages') > Len(messages)
    /\ SubSeq(messages', 1, Len(messages)) = messages
    /\ messages'[Len(messages) + 1].role = "model"

\* C2: the completion of a request whose handle has been superseded by a
\* rebind appends no turn to the history of the current session.
C2_StaleCompletionAppendsNothing ==
    [][StaleSettles => ~ModelTurnAppended]_vars

\* C3: the history holds no orphaned model turn: every model turn directly
\* follows a user turn, so the history never starts with a model turn.
C3_NoOrphanedModelTurn ==
    \A i \in 1..Len(messages) :
        messages[i].role = "model" => i > 1 /\ messages[i - 1].role = "user"

\* C4: whenever the session is Idle, the history the bound handle holds is
\* the visible conversation history.
C4_HandleMatchesTranscript ==
    Idle => HandleHistory = ToGeminiHistory(messages)


\* C5: sends each issued after the previous one resolved give the history of
\* (user turn, model reply) pairs in call order.
C5_SendsAppendInCallOrder ==
    expected # None => messages = Val(expected)

UserTurns(msgs) == {i \in 1..Len(msgs) : msgs[i].role = "user"}

C5_Witness ==
    /\ expected # None /\ ~isLoading
    /\ Len(messages) = 4
    /\ messages[1] = Msg("user", <<"a">>) /\ messages[3] = Msg("user", <<"b">>)
    /\ messages[2].role = "model" /\ messages[4].role = "model"

\* the reply as the session hands it to the handler
Delivered(outcome) == sendMessageResult(outcome).val

\* C6: editAndResubmit(i, newText) on a history H whose turn i is a user turn
\* leaves H[0..i) followed by user:trim(newText), on a new handle bound to
\* H[0..i), and once the reply arrives H[0..i), user:trim(newText), reply.
C6_EditTruncatesAndResubmits ==
    (/\ last.op = "edit"
     /\ Val(last.index) < Len(last.H)
     /\ last.H[Val(last.index) + 1].role = "user")
    => LET prefix == [j \in 1..Val(last.index) |-> last.H[j]]
           turn == Msg("user", Trim(last.text))
       IN /\ last.phase = "issued" =>
                /\ messages = prefix \o <<turn>>
                /\ HandleHistory = ToGeminiHistory(prefix)
                /\ \E r \in inflight :
                      r.sess = chatSession /\ r.kind = "edit" /\ r.text = turn.content
          /\ last.phase = "done" =>
                messages = prefix \o <<turn, Msg("model", Delivered(last.outcome))>>

C6_Witness ==
    /\ last.op = "edit" /\ last.phase = "done"
    /\ Len(last.H) = 4 /\ last.index = Some(2)
    /\ last.H[3].role = "user" /\ last.H[3].content # Trim(last.text)
    /\ Len(messages) = 4

\* the position (1-based) of the most recent user turn of a history
LastUser(H) == CHOOSE k \in UserTurns(H) : \A j \in UserTurns(H) : j <= k

\* C7: regenerateLast on a history H whose most recent user turn is at k
\* leaves H[0..k], the request sent on a new handle bound to H[0..k), and
\* once the reply arrives H[0..k] followed by the new reply.
C7_RegenerateKeepsUserTurnOnce ==
    last.op = "regen"
    => LET k == LastUser(last.H)
           kept == [j \in 1..k |-> last.H[j]]
           before == [j \in 1..(k - 1) |-> last.H[j]]
       IN /\ UserTurns(last.H) # {}
          /\ last.phase = "issued" =>
                /\ messages = kept
                /\ HandleHistory = ToGeminiHistory(before)
                /\ \E r \in inflight :
                      r.sess = chatSession /\ r.kind = "regen" /\ r.text = last.H[k].content
          /\ last.phase = "done" =>
                messages = kept \o <<Msg("model", Delivered(last.outcome))>>

C7_Witness ==
    /\ last.op = "regen" /\ last.phase = "done"
    /\ Len(last.H) = 4 /\ last.H[4].role = "model"
    /\ Len(messages) = 4 /\ Cardinality(UserTurns(messages)) = 2

FallbackMessages == {UIFallback, ChatErrorFallback}

\* C8: when the request of a send fails, one model turn with the fixed
\* fallback message follows the user turn, the session is Idle again and no
\* error has left the handler.
C8_FailedSendAppendsFallback ==
    (last.op = "send" /\ last.phase = "done" /\ ~last.outcome.ok)
    => /\ Len(messages) = Len(last.H) + 2
       /\ SubSeq(messages, 1, Len(last.H)) = last.H
       /\ messages[Len(last.H) + 1] = Msg("user", Trim(last.text))
       /\ messages[Len(last.H) + 2].role = "model"
       /\ messages[Len(last.H) + 2].content \in FallbackMessages
       /\ Idle
       /\ ~uncaught

C8_Witness ==
    /\ last.op = "send" /\ last.phase = "done" /\ ~last.outcome.ok
    /\ Len(messages) = Len(last.H) + 2 /\ Idle

\* C9: when the request of regenerateLast or editAndResubmit fails, the turn
\* is completed as for send: a fallback model turn follows the user turn and
\* the session is Idle again.
C9_FailedResubmitAppendsFallback ==
    (last.op \in {"regen", "edit"} /\ last.phase = "done" /\ ~last.outcome.ok)
    => /\ Len(messages) >= 2
       /\ messages[Len(messages)].role = "model"
       /\ messages[Len(messages)].content \in FallbackMessages
       /\ messages[Len(messages) - 1] = Msg("user", last.req.text)
       /\ Idle
       /\ ~uncaught

C9_Witness ==
    /\ last.op = "edit" /\ last.phase = "done" /\ ~last.outcome.ok
    /\ messages[Len(messages)].role = "model" /\ Idle

\* C10: a staged query is sent at most once, however often the notification
\* fires: while it is in the slot it has not been sent, and once the slot is
\* empty it has been sent exactly once.
C10_PendingQuerySentOnce ==
    /\ staging.delivered <= 1
    /\ pendingQuery # None => staging.delivered = 0
    /\ (staging.staged /\ pendingQuery = None) => staging.delivered = 1

C10_Witness ==
    /\ staging.staged /\ staging.delivered = 1 /\ pendingQuery = None /\ Idle
    /\ Cardinality({i \in UserTurns(messages) : IsQuery(messages[i].content)}) = 1


\* the step takes the query out of the slot and sends it on the bound session
QueryConsumedAndSent ==
    /\ pendingQuery' = None
    /\ \E r \in inflight' :
          r.sess = chatSession' /\ r.kind = "send" /\ r.text = Trim(Val(pendingQuery))

\* C11: a query staged while the session is Awaiting or no handle is bound
\* stays in the slot: it leaves the slot only by being sent, it is never in the
\* slot of an Idle session with a bound handle, and while the view is up a
\* query in the slot is in the end consumed and sent.
C11_StagedQueryEventuallySent ==
    /\ [](Idle => pendingQuery = None)
    /\ [][pendingQuery # None => (pendingQuery' # None \/ QueryConsumedAndSent)]_vars
    /\ (pendingQuery # None /\ Mounted)
          ~> (\/ ~Mounted
              \/ /\ pendingQuery = None /\ staging.delivered = 1
                 /\ \E r \in inflight : r.sess = chatSession /\ IsQuery(r.text))

C11_Witness ==
    /\ staging.staged /\ staging.held /\ staging.delivered = 1
    /\ pendingQuery = None /\ isLoading
    /\ Len(messages) = 3 /\ IsQuery(messages[3].content)


\* what the claims call history, handle, awaiting flag and issued requests
SessionFields(s) == <<s.messages, s.chatSession, s.sessions, s.isLoading, s.inflight>>

\* C12: send invoked while the session is Awaiting is rejected: history,
\* handle and the awaiting flag are unchanged and no request is issued.
C12_SendWhileAwaitingRejected ==
    (Mounted /\ isLoading)
    => \A text \in Texts \cup {inputValue} :
          SessionFields(processMessage(Cur, text)) = SessionFields(Cur)

C12_Witness ==
    /\ Mounted /\ isLoading /\ Len(messages) = 3 /\ Cardinality(inflight) = 1
    /\ processMessage(Cur, <<"b">>) = Cur

\* C13: editAndResubmit invoked while a reply is in flight (the edit opened
\* before the send started, submitted during Awaiting) does not change the
\* history, does not rebind the handle and issues no request.
C13_EditWhileAwaitingRejected ==
    [][(isLoading /\ SubmitEdit) => UNCHANGED <<messages, chatSession, inflight>>]_vars

\* C14: regenerateLast invoked when the history is empty, holds no user turn,
\* or while a reply is in flight is a no-op: history, handle and the awaiting
\* flag are unchanged and no request is issued.
C14_RegenerateNoOp ==
    (Mounted /\ (Len(messages) = 0 \/ UserTurns(messages) = {} \/ isLoading))
    => SessionFields(handleRegenerate(Cur)) = SessionFields(Cur)

C14_Witness ==
    /\ Mounted /\ isLoading /\ Len(messages) = 3 /\ messages[3].role = "user"
    /\ handleRegenerate(Cur) = Cur

\* C15: send with empty or whitespace-only text appends no turn, issues no
\* request and leaves the session Idle.
C15_BlankSendRejected ==
    Idle => \A text \in Texts :
               Trim(text) = <<>> =>
                  SessionFields(handleSendMessage(changeInput(Cur, text))) = SessionFields(Cur)

C15_Witness ==
    /\ Idle /\ inputValue = <<" ">> /\ Len(messages) = 2 /\ inflight = {}

\* C16: send while no handle is bound is rejected: no turn is appended and no
\* request is issued; a pending query present at that moment is not removed
\* from the slot.
C16_SendWithoutHandleRejected ==
    chatSession = 0
    => /\ \A text \in Texts \cup {QueryFor(sel) : sel \in Selections} :
             processMessage(Cur, text) = Cur
       /\ checkForPendingQuery(Cur) = Cur

C16_Witness ==
    /\ chatSession = 0 /\ pendingQuery # None
    /\ checkForPendingQuery(Cur).pendingQuery = pendingQuery

\* C17: editAndResubmit with a text that is empty after trimming leaves
\* history and handle unchanged and issues no request: the edit is only closed.
C17_BlankEditOnlyCloses ==
    EditBoxShown
    => \A text \in EditTexts \cup {editValue} :
          Trim(text) = <<>> =>
             LET t == submitEdit(changeEditValue(Cur, text))
             IN /\ SessionFields(t) = SessionFields(Cur)
                /\ t.editingIndex = None /\ t.editValue = <<>>

C17_Witness ==
    /\ EditBoxShown /\ Idle /\ Len(messages) = 2
    /\ submitEdit(changeEditValue(Cur, <<" ">>)) = cancelEdit(Cur)

\* C18: clear, when the user confirms, leaves an empty history and a fresh
\* handle bound to an empty history; when the user declines, history and
\* handle are unchanged.
C18_ClearResetsSession ==
    Mounted
    => /\ LET t == collect(runEffects(Cur, handleClearChat(Cur, TRUE)))
          IN /\ t.messages = <<>>
             /\ t.chatSession \notin {0, chatSession}
             /\ t.sessions[t.chatSession].history = <<>>
       /\ SessionFields(handleClearChat(Cur, FALSE)) = SessionFields(Cur)

C18_Witness ==
    /\ Idle /\ Len(messages) = 2 /\ HandleHistory # <<>>
    /\ handleClearChat(Cur, TRUE).messages = <<>>


\* C19: every request resolving or failing in the end, every entry into
\* Awaiting (by send, regenerateLast or editAndResubmit) is followed by a
\* return to Idle, also when the creation of the new handle fails.
C19_AwaitingEndsInIdle == isLoading ~> Idle


\* the text of the nodes put in place of one text node, the popups left out
RECURSIVE VisibleText(_)
VisibleText(nodes) ==
    IF nodes = <<>> THEN <<>> ELSE Head(nodes).text \o VisibleText(Tail(nodes))

\* C20: for every document and every glossary, the text of the result with the
\* tooltip popups left out is the text of the rendered document, node by
\* node: no character is added, dropped, reordered or re-cased.
C20_VisibleTextPreserved ==
    tooltips.pc = "returned"
    => /\ Len(tooltips.html) = Len(tooltips.textNodes)
       /\ \A n \in 1..Len(tooltips.textNodes) :
             VisibleText(tooltips.html[n]) = tooltips.textNodes[n]

C20_Witness ==
    /\ tooltips.pc = "returned"
    /\ \E n \in 1..Len(tooltips.html) :
          /\ Len(tooltips.html[n]) = 3
          /\ tooltips.html[n][1].kind = "text"
          /\ tooltips.html[n][2].kind = "tooltip"
          /\ tooltips.html[n][2].text # tooltips.html[n][2].title
          /\ tooltips.html[n][3].kind = "text"

\* ------------------------------------------------ glossary tooltips
\* the wrapped runs among the nodes put in place of a text node: where each
\* begins in the text of the node and how long it is
RECURSIVE SpansFrom(_, _)
SpansFrom(nodes, at) ==
    IF nodes = <<>> THEN {}
    ELSE (IF Head(nodes).kind = "tooltip"
          THEN {[index |-> at, length |-> Len(Head(nodes).text)]}
          ELSE {})
         \cup SpansFrom(Tail(nodes), at + Len(Head(nodes).text))

Spans(nodes) == SpansFrom(nodes, 0)

\* term occurs at position i of text as a whole word: its characters are
\* there, case ignored, and where the term begins or ends with a word
\* character the word does not go on beyond it
WholeWordAt(text, i, term) ==
    /\ term # <<>>
    /\ i + Len(term) <= Len(text)
    /\ \A k \in 1..Len(term) : LowerChar(text[i + k]) = LowerChar(term[k])
    /\ term[1] \in WordChars => ~(i >= 1 /\ text[i] \in WordChars)
    /\ term[Len(term)] \in WordChars
          => ~(i + Len(term) < Len(text) /\ text[i + Len(term) + 1] \in WordChars)

\* the whole-word occurrences of the terms of a glossary in a text
Occurrences(text, keyTerms) ==
    {[index |-> i, length |-> Len(keyTerms[k].term)] :
        <<i, k>> \in {ik \in (0..Len(text)) \X (1..Len(keyTerms)) :
                        WholeWordAt(text, ik[1], keyTerms[ik[2]].term)}}

Overlap(o1, o2) ==
    /\ o1.index < o2.index + o2.length
    /\ o2.index < o1.index + o1.length

\* C21: when a whole-word occurrence of a glossary term overlaps occurrences
\* of shorter terms only, it is the one that is wrapped, wherever the shorter
\* occurrences begin.
C21_LongerTermWins ==
    tooltips.pc = "returned"
    => \A n \in 1..Len(tooltips.textNodes) :
          LET occ == Occurrences(tooltips.textNodes[n], tooltips.keyTerms) IN
          \A o1 \in occ :
             (/\ \E o2 \in occ : Overlap(o1, o2) /\ o2.length < o1.length
              /\ \A o2 \in occ \ {o1} : Overlap(o1, o2) => o2.length < o1.length)
             => o1 \in Spans(tooltips.html[n])

\* a glossary without the entries whose term is the empty string
RECURSIVE WithoutEmptyTerms(_)
WithoutEmptyTerms(keyTerms) ==
    IF keyTerms = <<>> THEN <<>>
    ELSE (IF Head(keyTerms).term = <<>> THEN <<>> ELSE <<Head(keyTerms)>>)
         \o WithoutEmptyTerms(Tail(keyTerms))

\* C22: entries whose term is the empty string are skipped: every call
\* returns, what it returns is what the call returns for the glossary without
\* those entries, and no run of length zero is wrapped.
C22_EmptyTermsSkipped ==
    tooltips.pc # "called"
    => /\ tooltips.pc = "returned"
       /\ tooltips.html
            = renderMarkdownWithTooltips(tooltips.textNodes,
                                         WithoutEmptyTerms(tooltips.keyTerms)).nodes
       /\ \A n \in 1..Len(tooltips.html) :
             \A sp \in Spans(tooltips.html[n]) : sp.length > 0

\* C23: a call with an empty glossary returns, and what it returns is the
\* string the renderer produced, rawHtml itself.
C23_EmptyGlossaryReturnsRender ==
    (tooltips.pc # "called" /\ tooltips.keyTerms = <<>>)
    => /\ tooltips.pc = "returned"
       /\ tooltips.value = "rawHtml"
       /\ tooltips.html = rawHtml(tooltips.textNodes)

C23_Witness ==
    /\ tooltips.pc = "returned"
    /\ tooltips.keyTerms = <<>>
    /\ tooltips.value = "rawHtml"
    /\ \E n \in 1..Len(tooltips.textNodes) :
          \E j \in 1..Len(tooltips.textNodes[n]) : tooltips.textNodes[n][j] \in WordChars

\* the text of the node at positions index+1 .. index+length
Slice(text, sp) == SubSeq(text, sp.index + 1, sp.index + sp.length)

\* C24: a wrapped run is a glossary term, case ignored, standing as a whole
\* word: it lies between two word boundaries, and where it begins or ends
\* with a word character the character next to it in the text is not a word
\* character.  Letters of a term inside a larger word are never wrapped.
C24_WholeWordOnly ==
    tooltips.pc = "returned"
    => \A n \in 1..Len(tooltips.textNodes) :
          LET text == tooltips.textNodes[n] IN
          \A sp \in Spans(tooltips.html[n]) :
             /\ WordBoundary(text, sp.index)
             /\ WordBoundary(text, sp.index + sp.length)
             /\ \E k \in 1..Len(tooltips.keyTerms) :
                   WholeWordAt(text, sp.index, tooltips.keyTerms[k].term)
                   /\ Len(tooltips.keyTerms[k].term) = sp.length

\* a term made of word characters is wrapped where it stands alone and left
\* alone where its letters are part of a larger word
C24_Witness ==
    /\ tooltips.pc = "returned"
    /\ \E n \in 1..Len(tooltips.textNodes) :
          LET text == tooltips.textNodes[n] IN
          \E sp \in Spans(tooltips.html[n]) :
             /\ \A k \in 1..sp.length : text[sp.index + k] \in WordChars
             /\ \E i \in 0..(Len(text) - sp.length) :
                   /\ \A k \in 1..sp.length :
                         LowerChar(text[i + k]) = LowerChar(text[sp.index + k])
                   /\ i + sp.length < Len(text)
                   /\ text[i + sp.length + 1] \in WordChars
                   /\ \A other \in Spans(tooltips.html[n]) :
                         ~Overlap(other, [index |-> i, length |-> sp.length])

\* a document and a glossary written in lower case
LowerNodes(textNodes) == [n \in 1..Len(textNodes) |-> toLowerCase(textNodes[n])]
LowerTerms(keyTerms) ==
    [k \in 1..Len(keyTerms) |-> [keyTerms[k] EXCEPT !.term = toLowerCase(@)]]

\* the tooltips among the nodes put in place of a text node, each with the
\* place where it begins
RECURSIVE TooltipsFrom(_, _)
TooltipsFrom(nodes, at) ==
    IF nodes = <<>> THEN {}
    ELSE (IF Head(nodes).kind = "tooltip" THEN {[index |-> at, node |-> Head(nodes)]} ELSE {})
         \cup TooltipsFrom(Tail(nodes), at + Len(Head(nodes).text))

\* C25: matching ignores case and the output keeps it.  The runs that are
\* wrapped are those wrapped when the document and the terms are written in
\* lower case; a wrapped run shows the characters of the source as they are;
\* its popup holds the term and the definition of a glossary entry whose term
\* is the run with case ignored.
C25_CaseInsensitiveCasePreserving ==
    tooltips.pc = "returned"
    => LET lower == renderMarkdownWithTooltips(LowerNodes(tooltips.textNodes),
                                               LowerTerms(tooltips.keyTerms))
       IN /\ ~lower.hangs
          /\ \A n \in 1..Len(tooltips.textNodes) :
                /\ Spans(tooltips.html[n]) = Spans(lower.nodes[n])
                /\ \A t \in TooltipsFrom(tooltips.html[n], 0) :
                      /\ t.node.text = SubSeq(tooltips.textNodes[n], t.index + 1,
                                              t.index + Len(t.node.text))
                      /\ \E k \in 1..Len(tooltips.keyTerms) :
                            /\ tooltips.keyTerms[k].term = t.node.title
                            /\ tooltips.keyTerms[k].definition = t.node.desc
                            /\ toLowerCase(t.node.title) = toLowerCase(t.node.text)

\* a term written in one case is wrapped where the text has it in the other
C25_Witness ==
    /\ tooltips.pc = "returned"
    /\ \E n \in 1..Len(tooltips.html) :
          \E t \in TooltipsFrom(tooltips.html[n], 0) :
             /\ t.node.text # t.node.title
             /\ toLowerCase(t.node.text) = toLowerCase(t.node.title)

\* C26: a term is matched as literal text.  With a glossary of one entry,
\* every wrapped run is a whole-word occurrence of the literal text of the
\* term, and every whole-word occurrence of it is wrapped or overlaps a
\* wrapped occurrence, also when the term contains "+" or ends with it.
C26_LiteralWholeWordOccurrences ==
    (/\ tooltips.pc # "called"
     /\ Len(tooltips.keyTerms) = 1
     /\ tooltips.keyTerms[1].term # <<>>)
    => /\ tooltips.pc = "returned"
       /\ \A n \in 1..Len(tooltips.textNodes) :
             LET occ == Occurrences(tooltips.textNodes[n], tooltips.keyTerms)
                 spans == Spans(tooltips.html[n])
             IN /\ spans \subseteq occ
                /\ \A o \in occ : \E sp \in spans : sp = o \/ Overlap(sp, o)

\* entry i comes before entry j in the glossary sorted by descending length of
\* the term, entries of equal length in the order of the input
SortedBefore(keyTerms, i, j) ==
    \/ Len(keyTerms[i].term) > Len(keyTerms[j].term)
    \/ Len(keyTerms[i].term) = Len(keyTerms[j].term) /\ i < j

\* the entries whose term is the text with case ignored
EntriesFor(keyTerms, text) ==
    {k \in 1..Len(keyTerms) : toLowerCase(keyTerms[k].term) = toLowerCase(text)}

\* C27: the popup of a wrapped run holds the term and the definition of the
\* glossary entry that comes first, in the sorted glossary, among the entries
\* whose term is the run with case ignored.
C27_FirstSortedEntryChosen ==
    tooltips.pc = "returned"
    => \A n \in 1..Len(tooltips.html) :
          \A t \in TooltipsFrom(tooltips.html[n], 0) :
             \E k \in EntriesFor(tooltips.keyTerms, t.node.text) :
                /\ \A j \in EntriesFor(tooltips.keyTerms, t.node.text) \ {k} :
                      SortedBefore(tooltips.keyTerms, k, j)
                /\ t.node.title = tooltips.keyTerms[k].term
                /\ t.node.desc = tooltips.keyTerms[k].definition

\* two entries fit the wrapped run, and they differ
C27_Witness ==
    /\ tooltips.pc = "returned"
    /\ \E n \in 1..Len(tooltips.html) :
          \E t \in TooltipsFrom(tooltips.html[n], 0) :
             \E i, j \in EntriesFor(tooltips.keyTerms, t.node.text) :
                /\ i < j
                /\ tooltips.keyTerms[i].term # tooltips.keyTerms[j].term
                /\ t.node.title = tooltips.keyTerms[i].term

\* C28: the document is scanned once.  The wrapped runs are runs of the text
\* of the document as it was rendered; the text nodes made inside a wrapper
\* (the run it shows, the term and the definition of its popup) are plain
\* text nodes holding those texts as they are, never wrapped in turn, also
\* when a term of the glossary occurs in them.
C28_GeneratedMarkupNotScanned ==
    tooltips.pc = "returned"
    => \A n \in 1..Len(tooltips.html) :
          /\ \A r \in 1..Len(tooltips.html[n]) :
                tooltips.html[n][r].kind \in {"text", "tooltip"}
          /\ \A t \in TooltipsFrom(tooltips.html[n], 0) :
                /\ t.node.text = SubSeq(tooltips.textNodes[n], t.index + 1,
                                        t.index + Len(t.node.text))
                /\ Len(t.node.children) = 3
                /\ \A c \in 1..3 : t.node.children[c].kind = "text"
                /\ t.node.children[1].text = t.node.text
                /\ t.node.children[2].text = t.node.title
                /\ t.node.children[3].text = t.node.desc

\* a wrapper whose popup holds, in its title and in its definition, text that
\* the pattern of the glossary matches
C28_Witness ==
    /\ tooltips.pc = "returned"
    /\ \E n \in 1..Len(tooltips.html) :
          \E t \in TooltipsFrom(tooltips.html[n], 0) :
             /\ exec(t.node.children[2].text, 0, SortTerms(tooltips.keyTerms)) # None
             /\ exec(t.node.children[3].text, 0, SortTerms(tooltips.keyTerms)) # None

\* the runs put in place of a text node are slices of its text, one after the
\* other from the left: run r begins where run r - 1 ended
RECURSIVE InSourceOrder(_, _, _)
InSourceOrder(nodes, text, at) ==
    IF nodes = <<>> THEN at = Len(text)
    ELSE /\ at + Len(Head(nodes).text) <= Len(text)
         /\ Head(nodes).text = SubSeq(text, at + 1, at + Len(Head(nodes).text))
         /\ InSourceOrder(Tail(nodes), text, at + Len(Head(nodes).text))

\* C29: in a text node every whole-word occurrence of a glossary term that
\* overlaps no other occurrence is wrapped, each time it occurs; the wrapped
\* runs do not overlap; plain and wrapped runs follow each other in the order
\* of the text.
C29_EveryOccurrenceWrappedInOrder ==
    tooltips.pc = "returned"
    => \A n \in 1..Len(tooltips.textNodes) :
          LET text == tooltips.textNodes[n]
              occ == Occurrences(text, tooltips.keyTerms)
              spans == Spans(tooltips.html[n])
          IN /\ InSourceOrder(tooltips.html[n], text, 0)
             /\ \A s1, s2 \in spans : s1 # s2 => ~Overlap(s1, s2)
             /\ \A o \in occ :
                   (\A other \in occ \ {o} : ~Overlap(o, other)) => o \in spans

\* C30: the call leaves the caller's glossary array as it was: the same
\* entries in the same order, whatever the call does.
C30_GlossaryOnlyRead == [][tooltips'.keyTerms = tooltips.keyTerms]_vars

\* a call has returned on a glossary that is not in the sorted order
C30_Witness ==
    /\ tooltips.pc = "returned"
    /\ tooltips.value = "doc.body.innerHTML"
    /\ SortTerms(tooltips.keyTerms) # tooltips.keyTerms

\* ---------------------------------------------------------------------------
\* Termination of the match loop, the hand-off of a pending query, the edit
\* box, the draft, the application's status, and the audio button.

\* C31: the call terminates for every document and every glossary, glossaries
\* with an empty term included: no call ends in the match loop turning for
\* ever at one position.
C31_MatchLoopTerminates == tooltips.pc # "hangs"

\* C32: a query staged while one report is shown is sent only to a session of
\* that report: every send of a staged query goes out while the report is the
\* one the query was staged on, also when the query waited in the slot while
\* the view was taken down and put up for another report.
C32_QueryStaysWithItsReport ==
    [][\A r \in inflight' \ inflight :
          (r.kind = "send" /\ IsQuery(r.text)) => report' = staging'.report]_vars

\* C33: whenever an edit is open, editingIndex is the index of a user turn of
\* the transcript as it is now, whatever was started, sent, cleared,
\* regenerated, resubmitted or completed since the edit was opened.
C33_OpenEditRefersToUserTurn ==
    editingIndex # None
    => /\ Val(editingIndex) < Len(messages)
       /\ messages[Val(editingIndex) + 1].role = "user"

\* C34: a step in which a pending query is sent leaves the text of the input
\* box as it was: the input is cleared only by a send of its own text.
C34_ConsumingKeepsDraft ==
    [][(\E r \in inflight' \ inflight : r.kind = "send" /\ IsQuery(r.text))
          => inputValue' = inputValue]_vars

\* C35: in every state of App, status COMPLETE comes with a report and the
\* submitted input data (so the report view is rendered), and status IDLE
\* comes with no report, also when the application is reset while a
\* generation is in flight and the generation completes afterwards.
C35_StatusAgreesWithReport ==
    /\ app.status = "COMPLETE" => (app.report # None /\ app.inputData # None)
    /\ app.status = "IDLE" => app.report = None

\* C36: a source node of the button that is playing is the one sourceNodeRef
\* refers to, with isPlaying true, so that a click stops it; hence at most one
\* source node of the button is playing at a time.  The ended event of a
\* source node that was stopped takes nothing from a playback started after it.
C36_PlayingSourceIsTheOneHeld ==
    \A i \in 1..Len(audio.sources) :
        audio.sources[i] = "playing"
        => (audio.isPlaying /\ audio.sourceNodeRef = i)

====
